---- MODULE Spec2Model ----
(***************************************************************************)
(* pajbot/modules/default_chat_states.py: the DefaultChatStatesModule,     *)
(* which enables chat modes when the stream goes online / offline, and its *)
(* helper parse_follower_duration.                                         *)
(*                                                                         *)
(* Python values are records [t, v]:                                       *)
(*   [t |-> "None"]            None                                        *)
(*   [t |-> "int",    v |-> n] the int n                                    *)
(*   [t |-> "float",  v |-> n] the float n / 10 (tenths of a second)        *)
(*   [t |-> "bigint", v |-> s] an int of sign s whose quotient by 60 lies  *)
(*                             outside the range of a double (|n| around   *)
(*                             10^400; Python ints are unbounded)          *)
(*   [t |-> "inf",    v |-> s] the float s * infinity                      *)
(* A duration string is identified by what pytimeparse.parse yields for it *)
(* (the library is external to the repository): [empty, yields].           *)
(***************************************************************************)
EXTENDS Integers, Sequences, FiniteSets, TLC

VARIABLES
    bot,            \* self.bot: "Bot" or "None"
    settings,       \* self.settings: setting key -> value
    handlers,       \* event names this module is registered for (HandlerManager)
    event,          \* the handler that ran last ("none" before the first event)
    api_outcome,    \* trigger key -> what the Helix API answered in that run
    trace,          \* the effects of that run, in order: API calls, logs, messages
    ret,            \* what that run returned ("True") or the exception it raised
    duration_str,   \* argument of a direct parse_follower_duration call
    parse_out       \* its outcome ([called |-> FALSE] before the call)

vars == <<bot, settings, handlers, event, api_outcome, trace, ret, duration_str, parse_out>>

handler_vars == <<bot, settings, handlers, event, api_outcome, trace, ret>>
parse_vars == <<duration_str, parse_out>>

----------------------------------------------------------------------------
(* Bounds of the model *)

\* ints within MaxSmall of 0 and of the 3-month cap are all tried
MaxSmall == 130

----------------------------------------------------------------------------
(* Python values *)

PyNone == [t |-> "None", v |-> 0]
PyInt(n) == [t |-> "int", v |-> n]
PyFloat(tenths) == [t |-> "float", v |-> tenths]
PyBigInt(sign) == [t |-> "bigint", v |-> sign]
PyInf(sign) == [t |-> "inf", v |-> sign]

\* the cap of line 36, in minutes and in seconds
MAX_DURATION_M == 129600
MAX_DURATION_S == MAX_DURATION_M * 60

IntSeconds ==
    (-MaxSmall .. MaxSmall) \cup {1800, 475200, 604800, 2147483647, -2147483647}
        \cup ((MAX_DURATION_S - MaxSmall) .. (MAX_DURATION_S + MaxSmall))

FloatTenths == {-15, 0, 15, 599, 600, 900, 35999, 77759999, 77760000}

\* what pytimeparse.parse can yield (Optional[int | float], line 28)
ParseYields ==
    {PyNone} \cup {PyInt(n) : n \in IntSeconds} \cup {PyFloat(n) : n \in FloatTenths}
        \cup {PyBigInt(1), PyBigInt(-1), PyInf(1), PyInf(-1)}

EmptyStr == [empty |-> TRUE, yields |-> PyNone]
Str(y) == [empty |-> FALSE, yields |-> y]

DurationStrings == {EmptyStr} \cup {Str(y) : y \in ParseYields}

\* pytimeparse.parse(duration_str)
pytimeparse_parse(s) == s.yields

\* math.floor(duration_s / 60): true division to a double, then floor to an int.
\* int / int raises OverflowError when the quotient is too large for a double and
\* math.floor raises OverflowError on an infinity; for the ints and floats of the
\* model (below 2^31) the double quotient has the floor of the exact quotient.
floor_div_60(d) ==
    CASE d.t = "int" -> [raised |-> "", v |-> d.v \div 60]
      [] d.t = "float" -> [raised |-> "", v |-> d.v \div 600]
      [] OTHER -> [raised |-> "OverflowError", v |-> 0]

Max(a, b) == IF a >= b THEN a ELSE b
Min(a, b) == IF a <= b THEN a ELSE b

PARSE_FAILED_LOG ==
    [kind |-> "log", key |-> "parse_follower_duration", level |-> "error", msg |-> "Failed to parse time from"]

\* parse_follower_duration(duration_str): [raised, value, log]
parse_follower_duration(s) ==
    IF s.empty
    THEN [raised |-> "", value |-> PyNone, log |-> <<>>]
    ELSE LET duration_s == pytimeparse_parse(s) IN
         IF duration_s = PyNone
         THEN [raised |-> "", value |-> PyNone, log |-> <<PARSE_FAILED_LOG>>]
         ELSE LET q == floor_div_60(duration_s) IN
              IF q.raised # ""
              THEN [raised |-> q.raised, value |-> PyNone, log |-> <<>>]
              ELSE LET duration_m == Max(q.v, 0) IN
                   [raised |-> "", value |-> PyInt(Min(duration_m, MAX_DURATION_M)), log |-> <<>>]

----------------------------------------------------------------------------
(* The specification of direct calls of parse_follower_duration *)

NotCalled == [called |-> FALSE, raised |-> "", value |-> PyNone, log |-> <<>>]

CallParse ==
    /\ ~parse_out.called
    /\ LET r == parse_follower_duration(duration_str) IN
       parse_out' = [called |-> TRUE, raised |-> r.raised, value |-> r.value, log |-> r.log]
    /\ UNCHANGED <<duration_str, handler_vars>>

InitParse ==
    /\ duration_str \in DurationStrings
    /\ parse_out = NotCalled
    /\ bot = "None"
    /\ settings = <<>>
    /\ handlers = {}
    /\ event = "none"
    /\ api_outcome = <<>>
    /\ trace = <<>>
    /\ ret = "none"

NextParse == CallParse

SpecParse == InitParse /\ [][NextParse]_vars

----------------------------------------------------------------------------
(* DefaultChatStatesModule *)

ONLINE_PHRASE == "Goes Online"
OFFLINE_PHRASE == "Goes Offline"
NEVER_PHRASE == "Never"
PHRASE_OPTIONS == {ONLINE_PHRASE, OFFLINE_PHRASE, NEVER_PHRASE}

\* the five trigger settings, in the order the handlers read them
TRIGGER_KEYS == <<"emoteonly", "subonly", "r9k", "slow_option", "followersonly_option">>
TriggerKeys == {TRIGGER_KEYS[i] : i \in 1 .. Len(TRIGGER_KEYS)}

\* slow_time: a number within its constraints [1, 1800]
SlowTimes == {30, 45}

\* followersonly_time: free text
FollowerStrings == {EmptyStr, Str(PyNone), Str(PyInt(1800)), Str(PyBigInt(1))}

SettingsSnapshots ==
    [emoteonly : PHRASE_OPTIONS, subonly : PHRASE_OPTIONS, r9k : PHRASE_OPTIONS,
     slow_option : PHRASE_OPTIONS, slow_time : SlowTimes,
     followersonly_option : PHRASE_OPTIONS, followersonly_time : FollowerStrings]

\* What a Helix API call can do: return, or raise HTTPError with a status code.
UNCALLED == [exc |-> "uncalled", status_code |-> 0]
API_OK == [exc |-> "", status_code |-> 0]
HTTPError(code) == [exc |-> "HTTPError", status_code |-> code]
API_OUTCOMES == {API_OK, HTTPError(401), HTTPError(500)}

\* the positional arguments every update call starts with
API_IDS == <<"streamer.id", "bot_user.id", "bot_token_manager">>

api_call(key, op, state, extra) ==
    [kind |-> "api", key |-> key, op |-> op, ids |-> API_IDS, state |-> state, extra |-> extra]
log_error(key, msg) == [kind |-> "log", key |-> key, level |-> "error", msg |-> msg]
log_warning(msg) == [kind |-> "log", key |-> "", level |-> "warning", msg |-> msg]
send_message(key, msg) == [kind |-> "send_message", key |-> key, msg |-> msg]
parse_call(s) == [kind |-> "parse_follower_duration", key |-> "followersonly_option", arg |-> s]

\* try_update with every HTTPError taken for an unauthorized one
try_update_any_status(tr, call, outcome, unauthorized_log, reauth_msg, failed_log) ==
    LET called == Append(tr, call) IN
    IF outcome.exc = "HTTPError"
    THEN called \o <<log_error(call.key, unauthorized_log), send_message(call.key, reauth_msg)>>
    ELSE called

\* try: <call> except HTTPError as e: 401 -> log.error + send_message, else log.error
try_update(tr, call, outcome, unauthorized_log, reauth_msg, failed_log) ==
    LET called == Append(tr, call) IN
    IF outcome.exc = "HTTPError"
    THEN IF outcome.status_code = 401
         THEN called \o <<log_error(call.key, unauthorized_log), send_message(call.key, reauth_msg)>>
         ELSE Append(called, log_error(call.key, failed_log))
    ELSE called

\* emoteonly_block that turns the mode off again when the stream stops
emoteonly_block_toggle(tr, phrase, o) ==
    IF settings["emoteonly"] = phrase
    THEN try_update(tr, api_call("emoteonly", "update_emote_only_mode", phrase = ONLINE_PHRASE, <<>>),
                    o["emoteonly"],
                    "Failed to update emote only mode, unauthorized",
                    "Error: The bot must be re-authed in order to update emote only mode.",
                    "Failed to update emote only mode")
    ELSE tr

emoteonly_block(tr, phrase, o) ==
    IF settings["emoteonly"] = phrase
    THEN try_update(tr, api_call("emoteonly", "update_emote_only_mode", TRUE, <<>>), o["emoteonly"],
                    "Failed to update emote only mode, unauthorized",
                    "Error: The bot must be re-authed in order to update emote only mode.",
                    "Failed to update emote only mode")
    ELSE tr

subonly_block(tr, phrase, o) ==
    IF settings["subonly"] = phrase
    THEN try_update(tr, api_call("subonly", "update_sub_mode", TRUE, <<>>), o["subonly"],
                    "Failed to update subscriber only mode, unauthorized",
                    "Error: The bot must be re-authed in order to update subscriber only mode.",
                    "Failed to update subscriber only mode")
    ELSE tr

r9k_block(tr, phrase, o) ==
    IF settings["r9k"] = phrase
    THEN try_update(tr, api_call("r9k", "update_unique_chat_mode", TRUE, <<>>), o["r9k"],
                    "Failed to update unique chat mode, unauthorized",
                    "Error: The bot must be re-authed in order to update unique chat mode.",
                    "Failed to update unique chat mode")
    ELSE tr

\* slow_block that sends the setting's default of 30 seconds
slow_block_default_time(tr, phrase, o) ==
    IF settings["slow_option"] = phrase
    THEN try_update(tr, api_call("slow_option", "update_slow_mode", TRUE, <<PyInt(30)>>),
                    o["slow_option"],
                    "Failed to update slow mode, unauthorized",
                    "Error: The bot must be re-authed in order to update slow mode.",
                    "Failed to update slow_mode")
    ELSE tr

slow_block(tr, phrase, o) ==
    IF settings["slow_option"] = phrase
    THEN try_update(tr, api_call("slow_option", "update_slow_mode", TRUE, <<PyInt(settings["slow_time"])>>),
                    o["slow_option"],
                    "Failed to update slow mode, unauthorized",
                    "Error: The bot must be re-authed in order to update slow mode.",
                    "Failed to update slow_mode")
    ELSE tr

\* the last block; parse_follower_duration runs outside the try, so what it raises
\* leaves the handler: [trace, raised]
followersonly_block(tr, phrase, o) ==
    IF settings["followersonly_option"] = phrase
    THEN LET p == parse_follower_duration(settings["followersonly_time"])
             parsed == Append(tr, parse_call(settings["followersonly_time"])) \o p.log
         IN  IF p.raised # ""
             THEN [trace |-> parsed, raised |-> p.raised]
             ELSE [trace |-> try_update(parsed,
                                 api_call("followersonly_option", "update_follower_mode", TRUE, <<p.value>>),
                                 o["followersonly_option"],
                                 "Failed to update follower mode, unauthorized",
                                 "Error: The bot must be re-authed in order to update follower mode.",
                                 "Failed to update follower_mode"),
                   raised |-> ""]
    ELSE [trace |-> tr, raised |-> ""]

\* five_blocks with the slow block ahead of the r9k block
five_blocks_slow_first(phrase, o) ==
    followersonly_block(
        r9k_block(slow_block(subonly_block(emoteonly_block(<<>>, phrase, o), phrase, o), phrase, o), phrase, o),
        phrase, o)

five_blocks(phrase, o) ==
    followersonly_block(
        slow_block(r9k_block(subonly_block(emoteonly_block(<<>>, phrase, o), phrase, o), phrase, o), phrase, o),
        phrase, o)

\* on_stream_start(self, **rest), given what each API call will answer
run_on_stream_start(o) ==
    IF bot = "None"
    THEN [trace |-> <<log_warning("on_stream_start failed in DefaultChatStatesModule because bot is None")>>,
          raised |-> ""]
    ELSE five_blocks(ONLINE_PHRASE, o)

\* on_stream_stop without the check of self.bot
run_on_stream_stop_unchecked(o) == five_blocks(OFFLINE_PHRASE, o)

\* on_stream_stop(self, **rest)
run_on_stream_stop(o) ==
    IF bot = "None"
    THEN [trace |-> <<log_warning("on_stream_stop failed in DefaultChatStatesModule because bot is None")>>,
          raised |-> ""]
    ELSE five_blocks(OFFLINE_PHRASE, o)

\* the answers the API can give in one run: one per call the settings ask for
Answers(key, phrase) ==
    IF bot # "None" /\ settings[key] = phrase THEN API_OUTCOMES ELSE {UNCALLED}

ApiAnswers(phrase) ==
    [emoteonly : Answers("emoteonly", phrase), subonly : Answers("subonly", phrase),
     r9k : Answers("r9k", phrase), slow_option : Answers("slow_option", phrase),
     followersonly_option : Answers("followersonly_option", phrase)]

Called(tr, key) == \E i \in 1 .. Len(tr) : tr[i].kind = "api" /\ tr[i].key = key

Finish(name, o, r) ==
    /\ event' = name
    /\ trace' = r.trace
    /\ ret' = IF r.raised = "" THEN "True" ELSE r.raised
    /\ api_outcome' = [k \in TriggerKeys |-> IF Called(r.trace, k) THEN o[k] ELSE UNCALLED]
    /\ UNCHANGED <<bot, settings, handlers, parse_vars>>

on_stream_start ==
    /\ "on_stream_start" \in handlers
    /\ \E o \in ApiAnswers(ONLINE_PHRASE) : Finish("on_stream_start", o, run_on_stream_start(o))

on_stream_stop ==
    /\ "on_stream_stop" \in handlers
    /\ \E o \in ApiAnswers(OFFLINE_PHRASE) : Finish("on_stream_stop", o, run_on_stream_stop(o))

enable ==
    /\ handlers' = handlers \cup {"on_stream_start", "on_stream_stop"}
    /\ UNCHANGED <<bot, settings, event, api_outcome, trace, ret, parse_vars>>

disable ==
    /\ handlers' = handlers \ {"on_stream_start", "on_stream_stop"}
    /\ UNCHANGED <<bot, settings, event, api_outcome, trace, ret, parse_vars>>

Init ==
    /\ bot \in {"Bot", "None"}
    /\ settings \in SettingsSnapshots
    /\ handlers = {}
    /\ event = "none"
    /\ api_outcome = [k \in TriggerKeys |-> UNCALLED]
    /\ trace = <<>>
    /\ ret = "none"
    /\ duration_str = EmptyStr
    /\ parse_out = NotCalled

Next == on_stream_start \/ on_stream_stop \/ enable \/ disable

Spec == Init /\ [][Next]_vars

----------------------------------------------------------------------------
(* What the claims speak of *)

Handled == event # "none"
Phrase == IF event = "on_stream_start" THEN ONLINE_PHRASE ELSE OFFLINE_PHRASE
Triggered(k) == settings[k] = Phrase

Entries(kind) == {i \in 1 .. Len(trace) : trace[i].kind = kind}
CallsFor(k) == {i \in Entries("api") : trace[i].key = k}
KeyIndex(k) == CHOOSE i \in 1 .. Len(TRIGGER_KEYS) : TRIGGER_KEYS[i] = k

InRange(value) == value = PyNone \/ (value.t = "int" /\ 0 <= value.v /\ value.v <= MAX_DURATION_M)

\* C1: parse_follower_duration(s) is None or an integer in [0, 129600], for every
\* duration string: empty, unparsable, or parsing to any number of seconds.
C1_ResultInRange ==
    parse_out.called => (parse_out.raised = "" /\ InRange(parse_out.value))

\* m is min(max(floor(d / unit), 0), 129600), said without division
IsClampedFloor(d, unit, m) ==
    \/ d < unit /\ m = 0
    \/ d >= MAX_DURATION_M * unit /\ m = MAX_DURATION_M
    \/ d >= unit /\ d < MAX_DURATION_M * unit /\ unit * m <= d /\ d < unit * (m + 1)

Reference(y, value) ==
    CASE y.t = "int" -> value.t = "int" /\ IsClampedFloor(y.v, 60, value.v)
      [] y.t = "float" -> value.t = "int" /\ IsClampedFloor(y.v, 600, value.v)
      [] OTHER -> value = PyInt(IF y.v > 0 THEN MAX_DURATION_M ELSE 0)

\* C7: the result is absent when the text is empty or the parser yields nothing
\* (one failure logged, in the unparsable case only); otherwise, for parsed
\* seconds d, it is min(max(floor(d / 60), 0), 129600).
C7_AgreesWithReference ==
    parse_out.called =>
        /\ parse_out.raised = ""
        /\ IF duration_str.empty
           THEN parse_out.value = PyNone /\ parse_out.log = <<>>
           ELSE IF duration_str.yields = PyNone
                THEN parse_out.value = PyNone /\ Len(parse_out.log) = 1
                ELSE Reference(duration_str.yields, parse_out.value) /\ parse_out.log = <<>>

\* C2: with a bot, a category's API call is made, once, exactly when its trigger
\* is the phrase of the event handled; otherwise it is not made.
C2_TriggerMatching ==
    (Handled /\ bot = "Bot") =>
        \A k \in TriggerKeys : Cardinality(CallsFor(k)) = IF Triggered(k) THEN 1 ELSE 0

AllOk == [k \in TriggerKeys |-> API_OK]
CallOf(tr, k) == {tr[i] : i \in {j \in 1 .. Len(tr) : tr[j].kind = "api" /\ tr[j].key = k}}

\* C3: when one category's API call fails, every other triggered category's call
\* is still attempted exactly once, with the arguments of a run without failures.
C3_DispatchIndependence ==
    (Handled /\ bot = "Bot") =>
        \A a \in TriggerKeys : api_outcome[a].exc = "HTTPError" =>
            \A k \in TriggerKeys \ {a} : Triggered(k) =>
                /\ Cardinality(CallsFor(k)) = 1
                /\ CallOf(trace, k) = CallOf(five_blocks(Phrase, AllOk).trace, k)

\* C4: the handler always returns True; nothing it runs raises out of it.
C4_AlwaysReturnsTrue ==
    Handled => ret = "True"

REAUTH_NOTICE ==
    [emoteonly |-> "Error: The bot must be re-authed in order to update emote only mode.",
     subonly |-> "Error: The bot must be re-authed in order to update subscriber only mode.",
     r9k |-> "Error: The bot must be re-authed in order to update unique chat mode.",
     slow_option |-> "Error: The bot must be re-authed in order to update slow mode.",
     followersonly_option |-> "Error: The bot must be re-authed in order to update follower mode."]

Unauthorized == {k \in TriggerKeys : api_outcome[k] = HTTPError(401)}

\* C5: in one event there are as many send_message calls as categories whose API
\* call failed with status 401, one for each, naming its mode; calls that succeed,
\* that fail otherwise or that are not made send nothing.
C5_OneNoticePerUnauthorized ==
    Handled =>
        /\ Cardinality(Entries("send_message")) = Cardinality(Unauthorized)
        /\ \A k \in TriggerKeys :
              LET sent == {i \in Entries("send_message") : trace[i].key = k} IN
              IF k \in Unauthorized
              THEN Cardinality(sent) = 1 /\ \A i \in sent : trace[i].msg = REAUTH_NOTICE[k]
              ELSE sent = {}

C5_Witness ==
    /\ Handled
    /\ api_outcome["emoteonly"] = HTTPError(401)
    /\ api_outcome["subonly"] = HTTPError(500)
    /\ api_outcome["r9k"] = API_OK
    /\ api_outcome["slow_option"] = UNCALLED
    /\ api_outcome["followersonly_option"] = HTTPError(401)

\* C6: with no bot, a handler makes no API call, sends no message, does not call
\* parse_follower_duration, logs one warning and nothing else, and returns True.
C6_MissingBot ==
    (Handled /\ bot = "None") =>
        /\ Entries("api") = {}
        /\ Entries("send_message") = {}
        /\ Entries("parse_follower_duration") = {}
        /\ Len(trace) = 1
        /\ trace[1].kind = "log" /\ trace[1].level = "warning"
        /\ ret = "True"

C6_Witness ==
    /\ event = "on_stream_stop"
    /\ bot = "None"
    /\ \A k \in TriggerKeys : settings[k] = OFFLINE_PHRASE
    /\ ~settings["followersonly_time"].empty

\* C8: the slow call carries slow_time unchanged; the followers call carries what
\* parse_follower_duration gives for followersonly_time, and is made once with
\* None when that text is empty or unparsable; the three other calls carry
\* nothing more; parse_follower_duration runs only when followers-only triggers.
C8_ExtraParameters ==
    Handled =>
        /\ \A i \in Entries("api") :
              CASE trace[i].key = "slow_option" -> trace[i].extra = <<PyInt(settings["slow_time"])>>
                [] trace[i].key = "followersonly_option" ->
                      /\ trace[i].extra = <<parse_follower_duration(settings["followersonly_time"]).value>>
                      /\ InRange(trace[i].extra[1])
                      /\ settings["followersonly_time"] = Str(PyInt(1800)) => trace[i].extra = <<PyInt(30)>>
                [] OTHER -> trace[i].extra = <<>>
        /\ (/\ bot = "Bot"
            /\ Triggered("followersonly_option")
            /\ (settings["followersonly_time"].empty \/ settings["followersonly_time"].yields = PyNone))
              => /\ Cardinality(CallsFor("followersonly_option")) = 1
                 /\ \A i \in CallsFor("followersonly_option") : trace[i].extra = <<PyNone>>
        /\ Cardinality(Entries("parse_follower_duration")) <= 1
        /\ Entries("parse_follower_duration") # {} => Triggered("followersonly_option")

C8_Witness ==
    /\ Handled
    /\ settings["slow_time"] = 45
    /\ \E i \in CallsFor("slow_option") : trace[i].extra = <<PyInt(45)>>
    /\ \E i \in CallsFor("followersonly_option") : trace[i].extra = <<PyInt(30)>>
    /\ CallsFor("r9k") # {}

\* C9: every API call of either handler asks for the mode to be enabled.
C9_AlwaysEnable ==
    \A i \in Entries("api") : trace[i].state = TRUE

C9_Witness ==
    /\ event = "on_stream_stop"
    /\ \A k \in TriggerKeys : CallsFor(k) # {}

\* C10: the API calls of one event are in the order emote-only, subscriber-only,
\* unique-chat, slow, followers-only, five at most, and the error log and notice
\* of a failed call come before the next call.
C10_SequentialOrder ==
    /\ Cardinality(Entries("api")) <= 5
    /\ \A i, j \in Entries("api") : i < j => KeyIndex(trace[i].key) < KeyIndex(trace[j].key)
    /\ \A i \in Entries("log") \cup Entries("send_message") :
          trace[i].key \in TriggerKeys =>
              \E j \in Entries("api") :
                  /\ j < i
                  /\ trace[j].key = trace[i].key
                  /\ \A m \in Entries("api") : ~(j < m /\ m < i)
    /\ \A k \in TriggerKeys : api_outcome[k].exc = "HTTPError" =>
          \E i \in Entries("log") : trace[i].key = k /\ trace[i].level = "error"

C10_Witness ==
    /\ Handled
    /\ Cardinality(Entries("api")) = 5
    /\ api_outcome["emoteonly"] = HTTPError(401)
    /\ api_outcome["slow_option"] = HTTPError(500)

====
